---- MODULE Spec2Model ----
(***************************************************************************)
(* Model of the voice_to_text transcription engine (src/transcriber.py)    *)
(* and of the threads that call it (src/app.py).                           *)
(*                                                                         *)
(* Prices are integers in units of 1/10000 dollar per minute, so 0.006 is  *)
(* 60, 0.01 is 100, 0.1 is 1000 and the accepted range [0.0001, 1.0] is    *)
(* 1..10000.  Time is counted in whole days.  Python's None is the empty   *)
(* tuple and a value v that may be None is the 1-tuple <<v>>.  A message   *)
(* (an f-string) is the tuple of its pieces, the formatted numbers as the  *)
(* strings Python's format specifications produce.                         *)
(***************************************************************************)
EXTENDS Integers, Sequences, FiniteSets, TLC

\* ------------------------------------------------------------------ bounds
\* Calls to transcribe_audio started in one behaviour of Spec.
MaxCalls == 2
\* Calls started in one behaviour of SpecSeq, and of SpecConc.
MaxSeqCalls == 2
MaxConcCalls == 3
\* Last day the clock reaches.
MaxDay == 8
\* Calls started in one behaviour of SpecPrice, and the processes it runs.
MaxPriceCalls == 2
MaxRuns == 2
\* Input streams opened, chunks delivered, seconds on the clock and
\* temporary files created in one behaviour of SpecApp.
MaxStreams == 2
MaxChunks == 2
MaxClock == 1
MaxFiles == 2
\* Calls started in one behaviour of SpecApp.
MaxAppCalls == 2
MaxSaves == 2
MaxGuiCalls == 2

\* ------------------------------------------------------- program constants
DEFAULT_PRICE == 60
PRICE_CHECK_INTERVAL_DAYS == 7
WARN_PRICE_PER_MINUTE == 100
BLOCK_PRICE_PER_MINUTE == 1000
\* The range of an accepted looked-up price, 0.0001 <= new_price <= 1.0.
MIN_ACCEPTED_PRICE == 1
MAX_ACCEPTED_PRICE == 10000

None == << >>
Some(v) == << v >>

\* Worker threads (TranscribeWorker instances) that may run transcribe_audio.
Workers == {"w1", "w2"}

\* -------------------------------------------------------------- input sets
MODEL_SIZES == {"small", "tiny"}
DEVICES == {"cpu", "auto"}
COMPUTE_TYPES == {"int8", "float32"}
LANGUAGES == {"en", "auto"}

\* A settings snapshot as passed to transcribe_audio.
Config(ms, dv, ct, lg, nf) ==
    [model_size |-> ms, device |-> dv, compute_type |-> ct,
     language |-> lg, filter_background_noise |-> nf]

AllConfigs ==
    {Config(ms, dv, ct, lg, nf) :
        ms \in MODEL_SIZES, dv \in DEVICES, ct \in COMPUTE_TYPES,
        lg \in LANGUAGES, nf \in BOOLEAN}

\* The configurations the orchestrator specification draws from: every one
\* of the five values takes two values in it.
FewConfigs ==
    {Config("small", "cpu", "int8", "en", TRUE),
     Config("tiny", "auto", "float32", "auto", FALSE)}

\* The configurations of DEFAULTS, and of one changed model size.
RaceConfigs ==
    {Config("small", "cpu", "int8", "en", TRUE),
     Config("tiny", "cpu", "int8", "en", TRUE)}

\* Prices around the two thresholds.
Prices ==
    {DEFAULT_PRICE, WARN_PRICE_PER_MINUTE - 1, WARN_PRICE_PER_MINUTE,
     BLOCK_PRICE_PER_MINUTE - 1, BLOCK_PRICE_PER_MINUTE,
     BLOCK_PRICE_PER_MINUTE + 200}

\* What str(e) of a failed remote call may be; an exception without
\* arguments has the empty text.
RemoteErrors == {"Connection error.", ""}

\* The settings of DEFAULTS.
DefaultConfig == Config("small", "cpu", "int8", "en", TRUE)

\* ------------------------------------------------------------------- state
VARIABLES
    OPENAI_API_KEY,        \* os.environ holds a non-empty OPENAI_API_KEY
    internet,              \* api.openai.com:443 accepts a connection
    now,                   \* datetime.now(), in days
    PRICE_CACHE_FILE,      \* content of price_cache.json
    _cached_api_price,     \* module global of transcriber.py
    _cached_local_model,   \* module global of transcriber.py
    _cached_model_params,  \* module global of transcriber.py
    constructed,           \* every WhisperModel constructed so far, in order
    lastLocal,             \* the last local transcription that ran, if any
    ncalls,                \* transcribe_audio calls started so far
    fr,                    \* per worker: the frame of its transcribe_audio call
    run,                   \* the number of the process, counted from 1
    lookups,               \* every LLM price lookup made: its day, its process
    recorder,              \* the Recorder object: frames, recording, stream,
                           \* start_time
    portaudio,             \* the input streams and their callback thread
    clock,                 \* time.time(), in seconds
    ui,                    \* the thread that calls the Recorder's methods
    tempfiles,             \* the temporary .wav files that exist
    npaths,                \* temporary files created so far
    audio_path,            \* per worker: audio_path of its TranscribeWorker
    ended,                 \* every TranscribeWorker.run that ended
    cli,                   \* main() of vtt.py, when the program is vtt.py
    app,                   \* the VTTApp window: its fields and its widgets
    settings,              \* the Settings object the window and workers share
    dialog,                \* SettingsDialog.save_settings, when it runs
    args,                  \* per worker: what its TranscribeWorker holds and
                           \* what run has read of the settings so far
    pending                \* signals emitted by workers, not yet delivered

envVars == <<OPENAI_API_KEY, internet, now>>
priceVars == <<PRICE_CACHE_FILE, _cached_api_price>>
modelVars ==
    <<_cached_local_model, _cached_model_params, constructed, lastLocal>>
histVars == <<run, lookups>>
recVars == <<recorder, portaudio, clock, ui>>
fileVars == <<tempfiles, npaths>>
workerVars == <<audio_path, ended>>
appVars == <<recVars, fileVars, workerVars, cli>>
guiVars == <<app, settings, dialog, args, pending>>
vars ==
    <<envVars, priceVars, modelVars, ncalls, fr, histVars, appVars, guiVars>>

\* ------------------------------------------------------- price cache file
\* kind: "absent"  no file
\*       "corrupt" not JSON (json.loads raises JSONDecodeError)
\*       "empty"   the empty JSON object {}, falsy in Python
\*       "falsy"   other JSON that is falsy in Python: [], 0, "", null, false
\*       "truthy"  JSON that is truthy and no object: [1], 5, "abc", true
\*       "object"  a non-empty JSON object
\* has_price / price: the object's price_per_minute key
\* last: "missing", "bad" (no ISO timestamp) or "ok" with last_checked = day
File(kind, has_price, price, last, day) ==
    [kind |-> kind, has_price |-> has_price, price |-> price,
     last |-> last, day |-> day]

AbsentFile == File("absent", FALSE, 0, "missing", 0)

\* json.dumps of {"price_per_minute": p, "last_checked": now.isoformat()}.
WrittenFile(p, day) == File("object", TRUE, p, "ok", day)

\* -------------------------------------------------------------- formatting
\* round(p / 10): the thousandths of a price, as the format ".3f" rounds it.
\* (For p % 10 = 5 the binary float decides the direction; no price of the
\* model is such a tie.)
RoundMilli(p) == (p + 5) \div 10

\* f"{p:.3f}" of a price.
Fmt3(p) ==
    LET m == RoundMilli(p)
    IN  ToString(m \div 1000) \o "." \o ToString((m \div 100) % 10)
            \o ToString((m \div 10) % 10) \o ToString(m % 10)

\* f"{p:.2f}" of a price.
Fmt2(p) ==
    LET c == (p + 50) \div 100
    IN  ToString(c \div 100) \o "." \o ToString((c \div 10) % 10)
            \o ToString(c % 10)

\* The reasons and the warning transcribe_audio builds.
LocalModeMsg == << "Local mode selected" >>
NoKeyMsg == << "No OPENAI_API_KEY set" >>
NoInternetMsg == << "No internet connection" >>
PriceExceedsMsg(p) ==
    << "API price ($", Fmt3(p), "/min) exceeds $",
       Fmt2(BLOCK_PRICE_PER_MINUTE), "/min" >>
WarningMsg(p) ==
    << "API price is $", Fmt3(p), "/min (threshold: $",
       Fmt2(WARN_PRICE_PER_MINUTE), "/min)" >>

\* ------------------------------------------------------------------ frames
\* A WhisperModel instance: its identity and the triple it was built with.
Model(id, params) == [id |-> id, params |-> params]
NoModel == Model(0, << >>)

\* The text a backend returns, tagged with what produced it.
RemoteText ==
    [backend |-> "remote", model |-> NoModel, language |-> None,
     vad_filter |-> FALSE]
LocalText(m, lang, vad) ==
    [backend |-> "local", model |-> m, language |-> lang, vad_filter |-> vad]

\* current_params of transcribe_locally.
Triple(f) == << f.model_size, f.device, f.compute_type >>

\* The frame of a worker that runs no call.  pc is the place the call has
\* reached; events lists, in order, the checks and backend calls it made;
\* returned and exc say how it ended; remote_error is the text of the
\* exception transcribe_with_api raised; seen is the cache as line 218 read
\* it, prev the last local transcription finished before that, and built
\* the model the call constructed; cache_read is the price cache file as
\* get_api_price read it, price_path the way get_api_price took,
\* price_day the day it ended and candidate what its lookup gave.
IdleFrame ==
    [pc |-> "idle", force_local |-> FALSE,
     model_size |-> "small", device |-> "cpu", compute_type |-> "int8",
     language |-> "en", filter_background_noise |-> TRUE,
     use_api |-> TRUE, reason |-> None, api_price |-> None,
     warning |-> None, used_api |-> FALSE, text |-> None,
     cached_price |-> 0, events |-> << >>, returned |-> FALSE,
     exc |-> None, remote_error |-> None, seen |-> None, prev |-> None,
     built |-> None, cache_read |-> None, price_path |-> "",
     price_day |-> 0, candidate |-> None]

\* The call raised exception e: it ends, and nothing is returned.
Raise(f, e) == [f EXCEPT !.pc = "done", !.exc = Some(e)]

\* The call reached "return text, elapsed, used_api, api_price, warning,
\* reason".
Return(f) == [f EXCEPT !.pc = "done", !.returned = TRUE]

Event(f, e) == [f EXCEPT !.events = Append(@, e)]

\* ------------------------------------------------------------ has_internet
\* has_internet(): one connection attempt; its answer is the network's state.
has_internet == internet

\* ---------------------------------------------------------- transcribe_audio
\* PriceDecision with a price equal to the block threshold let through.
PriceDecisionStrict(f, p) ==
    IF p > BLOCK_PRICE_PER_MINUTE
    THEN [f EXCEPT !.api_price = Some(p),
                   !.reason = Some(PriceExceedsMsg(p)),
                   !.use_api = FALSE,
                   !.pc = "local"]
    ELSE [f EXCEPT !.api_price = Some(p),
                   !.warning = IF p >= WARN_PRICE_PER_MINUTE
                               THEN Some(WarningMsg(p)) ELSE None,
                   !.pc = "remote"]

\* Lines 285-291, once get_api_price returned p: the block threshold and the
\* warning.
PriceDecision(f, p) ==
    IF p >= BLOCK_PRICE_PER_MINUTE
    THEN [f EXCEPT !.api_price = Some(p),
                   !.reason = Some(PriceExceedsMsg(p)),
                   !.use_api = FALSE,
                   !.pc = "local"]
    ELSE [f EXCEPT !.api_price = Some(p),
                   !.warning = IF p >= WARN_PRICE_PER_MINUTE
                               THEN Some(WarningMsg(p)) ELSE None,
                   !.pc = "remote"]

\* Decide with the API key checked before force_local.
DecideKeyFirst(force_local, cfg, key) ==
    LET f0 == [IdleFrame EXCEPT
                 !.force_local = force_local,
                 !.model_size = cfg.model_size,
                 !.device = cfg.device,
                 !.compute_type = cfg.compute_type,
                 !.language = cfg.language,
                 !.filter_background_noise = cfg.filter_background_noise]
    IN  IF ~key
        THEN [f0 EXCEPT !.reason = Some(NoKeyMsg), !.use_api = FALSE,
                        !.pc = "local", !.events = << "key_missing" >>]
        ELSE IF force_local
        THEN [f0 EXCEPT !.reason = Some(LocalModeMsg), !.use_api = FALSE,
                        !.pc = "local", !.events = << "key_set" >>]
        ELSE [f0 EXCEPT !.pc = "probe", !.events = << "key_set" >>]

\* Lines 266-275: the call starts, and checks force_local, then the API key.
Decide(force_local, cfg, key) ==
    LET f0 == [IdleFrame EXCEPT
                 !.force_local = force_local,
                 !.model_size = cfg.model_size,
                 !.device = cfg.device,
                 !.compute_type = cfg.compute_type,
                 !.language = cfg.language,
                 !.filter_background_noise = cfg.filter_background_noise]
    IN  IF force_local
        THEN [f0 EXCEPT !.reason = Some(LocalModeMsg), !.use_api = FALSE,
                        !.pc = "local"]
        ELSE IF ~key
        THEN [f0 EXCEPT !.reason = Some(NoKeyMsg), !.use_api = FALSE,
                        !.pc = "local", !.events = << "key_missing" >>]
        ELSE [f0 EXCEPT !.pc = "probe", !.events = << "key_set" >>]

\* transcribe_audio(audio_path, force_local, ..., cfg) is called on worker w.
Call(w, force_local, cfg) ==
    /\ fr[w].pc \in {"idle", "done"}
    /\ ncalls' = ncalls + 1
    /\ fr' = [fr EXCEPT ![w] = Decide(force_local, cfg, OPENAI_API_KEY)]
    /\ UNCHANGED <<envVars, priceVars, modelVars, histVars, appVars, guiVars>>

\* ProbeResult with a failed probe that leaves the reason unset.
ProbeNoReason(f, net) ==
    IF net
    THEN [Event(f, "probe_ok") EXCEPT !.pc = "price"]
    ELSE [Event(f, "probe_failed") EXCEPT !.use_api = FALSE, !.pc = "local"]

\* ProbeResult with a failed probe that leaves use_api set, so that the
\* price is looked up all the same.
ProbeKeepsApi(f, net) ==
    IF net
    THEN [Event(f, "probe_ok") EXCEPT !.pc = "price"]
    ELSE [Event(f, "probe_failed") EXCEPT
            !.reason = Some(NoInternetMsg), !.pc = "price"]

\* Lines 277-279 for the answer net of has_internet().
ProbeResult(f, net) ==
    IF net
    THEN [Event(f, "probe_ok") EXCEPT !.pc = "price"]
    ELSE [Event(f, "probe_failed") EXCEPT
            !.reason = Some(NoInternetMsg), !.use_api = FALSE,
            !.pc = "local"]

\* Lines 277-279: the connectivity probe.
Probe(w) ==
    /\ fr[w].pc = "probe"
    /\ fr' = [fr EXCEPT ![w] = ProbeResult(@, has_internet)]
    /\ UNCHANGED <<envVars, priceVars, modelVars, ncalls, histVars,
                   appVars, guiVars>>

\* -------------------------------------------------------------- get_api_price
\* Lines 84-90: the cache as read from the file; None when there is no file
\* or json.loads raised JSONDecodeError.
ReadCache(file) ==
    IF file.kind \in {"absent", "corrupt"} THEN None ELSE Some(file)

\* Python's truth value of the parsed cache ("if cache", "cache and ...").
Truthy(cache) == cache # None /\ cache[1].kind \notin {"empty", "falsy"}

\* Lines 81-107 for the in-memory price mem, the file, the API key, the
\* network and the day: what get_api_price does before any lookup.
\*   kind "return": it returns price and leaves price in _cached_api_price
\*   kind "raise":  it raises exc, _cached_api_price stays None
\*   kind "lookup": it goes on to the LLM lookup with cached_price
\* probed: has_internet() was called (line 105).
\* path: "memory" (line 81), "fresh" (line 100), "no_key" and "no_internet"
\*       (line 105), "lookup" (line 109) or "raise".
PriceStep(kind, price, exc, probed, path) ==
    [kind |-> kind, price |-> price, exc |-> exc, probed |-> probed,
     path |-> path]

GetPriceFromCache(mem, file, key, net, day) ==
    LET cache == ReadCache(file)
        c == cache[1]
        \* line 105, with cached_price settled
        refresh(cached_price) ==
            IF ~key THEN PriceStep("return", cached_price, "", FALSE, "no_key")
            ELSE IF ~net
            THEN PriceStep("return", cached_price, "", TRUE, "no_internet")
            ELSE PriceStep("lookup", cached_price, "", TRUE, "lookup")
    IN  IF mem # None THEN PriceStep("return", mem[1], "", FALSE, "memory")
        ELSE IF ~Truthy(cache) THEN refresh(DEFAULT_PRICE)
        ELSE IF c.kind = "truthy"
        THEN PriceStep("raise", 0, "TypeError", FALSE, "raise")
        ELSE IF c.last = "bad"
        THEN PriceStep("raise", 0, "ValueError", FALSE, "raise")
        ELSE IF c.last = "ok" /\ day - c.day < PRICE_CHECK_INTERVAL_DAYS
        THEN \* not needs_refresh, line 100
             IF c.has_price
             THEN PriceStep("return", c.price, "", FALSE, "fresh")
             ELSE PriceStep("raise", 0, "KeyError", FALSE, "raise")
        ELSE \* needs_refresh, line 104
             IF c.has_price THEN refresh(c.price)
             ELSE PriceStep("raise", 0, "KeyError", FALSE, "raise")

\* transcribe_audio line 284 calls get_api_price, which runs up to its
\* return, its exception or the start of the lookup.
GetPrice(w) ==
    /\ fr[w].pc = "price"
    /\ LET r == GetPriceFromCache(_cached_api_price, PRICE_CACHE_FILE,
                                  OPENAI_API_KEY, has_internet, now)
           f0 == [fr[w] EXCEPT
                    !.cache_read = IF _cached_api_price = None
                                   THEN Some(PRICE_CACHE_FILE) ELSE None,
                    !.price_path = r.path, !.price_day = now]
           f1 == Event(f0, "get_api_price")
           f2 == IF r.probed THEN Event(f1, "price_probe") ELSE f1
       IN  /\ fr' = [fr EXCEPT ![w] =
                CASE r.kind = "return" -> PriceDecision(f2, r.price)
                  [] r.kind = "raise" -> Raise(f2, r.exc)
                  [] OTHER -> [f2 EXCEPT !.cached_price = r.price,
                                         !.pc = "lookup"]]
           /\ _cached_api_price' =
                IF r.kind = "return" THEN Some(r.price) ELSE _cached_api_price
    /\ UNCHANGED <<envVars, PRICE_CACHE_FILE, modelVars, ncalls, histVars,
                   appVars, guiVars>>

\* What the LLM lookup may give: an exception ("raise"), a reply without a
\* number ("nomatch"), or a reply whose first number is price.
LookupResult(kind, price) == [kind |-> kind, price |-> price]
LookupResults ==
    {LookupResult("raise", 0), LookupResult("nomatch", 0)}
        \cup {LookupResult("number", c) :
                c \in Prices \cup {MIN_ACCEPTED_PRICE - 1, MIN_ACCEPTED_PRICE,
                                   MAX_ACCEPTED_PRICE, MAX_ACCEPTED_PRICE + 1}}

\* Accepted without the range of line 128: any number is taken.
AcceptedAnyNumber(r) == r.kind = "number"

\* Line 128: the looked-up price is accepted.
Accepted(r) ==
    /\ r.kind = "number"
    /\ MIN_ACCEPTED_PRICE <= r.price
    /\ r.price <= MAX_ACCEPTED_PRICE

\* Lines 109-149: the price get_api_price settles on after the lookup.
LookupPrice(r, cached_price) == IF Accepted(r) THEN r.price ELSE cached_price

\* The way get_api_price ends after the lookup gave r: line 136, line 138
\* with a number out of range, line 138 without a number, line 140.
LookupPath(r) ==
    IF Accepted(r) THEN "accepted"
    ELSE IF r.kind = "number" THEN "rejected"
    ELSE IF r.kind = "nomatch" THEN "unparseable"
    ELSE "error"

\* Lines 109-149: the lookup, the write of the cache file, the return.
Lookup(w) ==
    /\ fr[w].pc = "lookup"
    /\ lookups' = Append(lookups, [day |-> now, run |-> run])
    /\ \E r \in LookupResults :
         LET p == LookupPrice(r, fr[w].cached_price)
             f1 == [fr[w] EXCEPT !.candidate = Some(r),
                                 !.price_path = LookupPath(r),
                                 !.price_day = now]
         IN  /\ PRICE_CACHE_FILE' = WrittenFile(p, now)
             /\ _cached_api_price' = Some(p)
             /\ fr' = [fr EXCEPT ![w] =
                         PriceDecision(Event(Event(f1, "lookup"), "write"), p)]
    /\ UNCHANGED <<envVars, modelVars, ncalls, run, appVars, guiVars>>

\* -------------------------------------------------------- transcribe_with_api
\* RemoteSucceeded with the local backend run after the remote text came.
RemoteSucceededThenLocal(f) ==
    [Event(f, "remote") EXCEPT
       !.text = Some(RemoteText), !.used_api = TRUE, !.pc = "local"]

\* Lines 297-298 and 313-315: transcribe_with_api returned the text.
RemoteSucceeded(f) ==
    Return([Event(f, "remote") EXCEPT
              !.text = Some(RemoteText), !.used_api = TRUE])

\* RemoteFailed with the exception text dropped for a fixed reason.
RemoteFailedFixedReason(f, e) ==
    [Event(f, "remote") EXCEPT
       !.remote_error = Some(e), !.reason = Some(<< "API failed" >>),
       !.pc = "local"]

\* Lines 299-302: transcribe_with_api raised an exception of text e, which
\* becomes the reason; the call goes on to transcribe_locally.
RemoteFailed(f, e) ==
    [Event(f, "remote") EXCEPT
       !.remote_error = Some(e), !.reason = Some(<< e >>), !.pc = "local"]

\* Lines 294-301: the remote attempt.
Remote(w) ==
    /\ fr[w].pc = "remote"
    /\ \/ fr' = [fr EXCEPT ![w] = RemoteSucceeded(@)]
       \/ \E e \in RemoteErrors : fr' = [fr EXCEPT ![w] = RemoteFailed(@, e)]
    /\ UNCHANGED <<envVars, priceVars, modelVars, ncalls, histVars,
                   appVars, guiVars>>

\* --------------------------------------------------------- transcribe_locally
\* NeedsReload with only the model size compared.
NeedsReloadSizeOnly(model, cached_params, params) ==
    model = None \/ cached_params = None \/ cached_params[1][1] # params[1]

\* Line 218: the cached model cannot serve the triple params.
NeedsReload(model, cached_params, params) ==
    model = None \/ cached_params # Some(params)

\* Lines 217-218: transcribe_locally is entered and reads the cache.
LocalCheck(w) ==
    /\ fr[w].pc = "local"
    /\ fr' = [fr EXCEPT ![w] =
                [Event(@, "local") EXCEPT
                   !.seen = Some([model |-> _cached_local_model,
                                  params |-> _cached_model_params,
                                  nbuilt |-> Len(constructed)]),
                   !.prev = lastLocal,
                   !.pc = IF NeedsReload(_cached_local_model,
                                         _cached_model_params,
                                         Triple(fr[w]))
                          THEN "build" ELSE "run"]]
    /\ UNCHANGED <<envVars, priceVars, modelVars, ncalls, histVars,
                   appVars, guiVars>>

\* Lines 219-220: WhisperModel(...) is constructed and stored in
\* _cached_local_model, or the constructor raises.
LocalBuild(w) ==
    /\ fr[w].pc = "build"
    /\ \E ok \in BOOLEAN :
         IF ok
         THEN LET m == Model(Len(constructed) + 1, Triple(fr[w]))
              IN  /\ constructed' = Append(constructed, m)
                  /\ _cached_local_model' = Some(m)
                  /\ fr' = [fr EXCEPT ![w] =
                              [Event(@, "build") EXCEPT
                                 !.built = Some(m), !.pc = "params"]]
         ELSE /\ fr' = [fr EXCEPT ![w] =
                          Raise(Event(@, "build"), "LoadError")]
              /\ UNCHANGED <<constructed, _cached_local_model>>
    /\ UNCHANGED <<envVars, priceVars, _cached_model_params, lastLocal, ncalls,
                   histVars, appVars, guiVars>>

\* Line 221: the triple is recorded as the key of the cached model.
LocalSetParams(w) ==
    /\ fr[w].pc = "params"
    /\ _cached_model_params' = Some(Triple(fr[w]))
    /\ fr' = [fr EXCEPT ![w].pc = "run"]
    /\ UNCHANGED <<envVars, priceVars, _cached_local_model, constructed,
                   lastLocal, ncalls, histVars, appVars, guiVars>>

\* Line 224: language "auto" is passed as None.
Lang(lg) == IF lg = "auto" THEN None ELSE Some(lg)

\* Lines 224-237 and 313-315: the model that _cached_local_model names now
\* transcribes (None has no transcribe: AttributeError), or raises; then
\* transcribe_audio returns.
LocalRun(w) ==
    /\ fr[w].pc = "run"
    /\ IF _cached_local_model = None
       THEN /\ fr' = [fr EXCEPT ![w] = Raise(@, "AttributeError")]
            /\ UNCHANGED lastLocal
       ELSE LET m == _cached_local_model[1]
                lang == Lang(fr[w].language)
                vad == fr[w].filter_background_noise
            IN  /\ lastLocal' = Some([params |-> Triple(fr[w]), model |-> m,
                                      language |-> lang, vad_filter |-> vad,
                                      cleared |-> FALSE])
                /\ \E ok \in BOOLEAN :
                     fr' = [fr EXCEPT ![w] =
                              IF ok
                              THEN Return([@ EXCEPT !.text =
                                             Some(LocalText(m, lang, vad))])
                              ELSE Raise(@, "DecodeError")]
    /\ UNCHANGED <<envVars, priceVars, _cached_local_model,
                   _cached_model_params, constructed, ncalls, histVars,
                   appVars, guiVars>>

\* clear_cached_model(), called by SettingsDialog.save_settings on the UI
\* thread.
clear_cached_model ==
    /\ _cached_local_model' = None
    /\ _cached_model_params' = None
    /\ lastLocal' = IF lastLocal = None THEN None
                    ELSE Some([lastLocal[1] EXCEPT !.cleared = TRUE])
    /\ UNCHANGED <<envVars, priceVars, constructed, ncalls, fr, histVars,
                   appVars>>

\* ---------------------------------------------------------------- environment
\* SettingsDialog.save_settings sets or clears the API key in os.environ.
SetApiKey ==
    /\ OPENAI_API_KEY' = ~OPENAI_API_KEY
    /\ UNCHANGED <<internet, now, priceVars, modelVars, ncalls, fr, histVars,
                   appVars, guiVars>>

\* The network comes or goes: what the next has_internet() answers.
NetworkChange ==
    /\ internet' = ~internet
    /\ UNCHANGED <<OPENAI_API_KEY, now, priceVars, modelVars, ncalls, fr,
                   histVars, appVars, guiVars>>

\* A day passes on the clock datetime.now() reads.
Tick ==
    /\ now < MaxDay
    /\ now' = now + 1
    /\ UNCHANGED <<OPENAI_API_KEY, internet, priceVars, modelVars, ncalls, fr,
                   histVars, appVars, guiVars>>

\* -------------------------------------------------------------------- Recorder
\* Recorder.__init__, lines 155-160.
NewRecorder ==
    [frames |-> << >>, recording |-> FALSE, stream |-> None,
     start_time |-> None]

\* No input stream was opened, no chunk delivered, no callback is running.
\* opened counts the streams created, running holds those started and not
\* stopped, delivered counts the chunks handed to _callback, and callback
\* is the chunk of the _callback that is past its test of self.recording.
NoAudio ==
    [opened |-> 0, running |-> {}, delivered |-> 0, callback |-> None]

\* The thread that calls the Recorder: pc is "idle" or, inside stop(),
\* "stop_stream"; op, before, result and exc describe the last method call:
\* its name, the Recorder as the call found it, what it returned and what
\* it raised.
UiState(pc, op, before, result, exc) ==
    [pc |-> pc, op |-> op, before |-> before, result |-> result, exc |-> exc]
IdleUi == UiState("idle", "", NewRecorder, None, None)

\* A chunk of audio in self.frames: its number in the order of capture and
\* the stream that delivered it; flag is the value of self.recording at the
\* moment of the append.
Chunk(id, s, flag) == [id |-> id, stream |-> s, flag |-> flag]

\* Recorder.start, lines 166-174; ok: sd.InputStream(...) could be opened.
\* When it could not, the exception leaves self.stream as it was.
start ==
    /\ ui.pc = "idle"
    /\ portaudio.opened < MaxStreams
    /\ \E ok \in BOOLEAN :
         LET s == portaudio.opened + 1
         IN  /\ recorder' = [frames |-> << >>, recording |-> TRUE,
                             start_time |-> Some(clock),
                             stream |-> IF ok THEN Some(s)
                                        ELSE recorder.stream]
             /\ portaudio' = [portaudio EXCEPT
                                !.opened = s,
                                !.running = IF ok THEN @ \cup {s} ELSE @]
             /\ ui' = UiState("idle", "start", recorder, None,
                              IF ok THEN None ELSE Some("PortAudioError"))
    /\ UNCHANGED <<clock, fileVars, workerVars, cli>>
    /\ UNCHANGED <<envVars, priceVars, modelVars, ncalls, fr, histVars>>

\* Recorder._callback, line 163: a running stream delivers a chunk and the
\* callback tests self.recording; when it is false the callback returns.
CallbackTest ==
    /\ portaudio.callback = None
    /\ portaudio.delivered < MaxChunks
    /\ \E s \in portaudio.running :
         LET c == portaudio.delivered + 1
         IN  portaudio' = [portaudio EXCEPT
                             !.delivered = c,
                             !.callback = IF recorder.recording
                                          THEN Some([id |-> c, stream |-> s])
                                          ELSE None]
    /\ UNCHANGED <<recorder, clock, ui, fileVars, workerVars, cli>>
    /\ UNCHANGED <<envVars, priceVars, modelVars, ncalls, fr, histVars,
                   guiVars>>

\* Recorder._callback, line 164: the chunk is appended to self.frames.
CallbackAppend ==
    /\ portaudio.callback # None
    /\ LET c == portaudio.callback[1]
       IN  recorder' = [recorder EXCEPT
                          !.frames = Append(@, Chunk(c.id, c.stream,
                                                     recorder.recording))]
    /\ portaudio' = [portaudio EXCEPT !.callback = None]
    /\ UNCHANGED <<clock, ui, fileVars, workerVars, cli>>
    /\ UNCHANGED <<envVars, priceVars, modelVars, ncalls, fr, histVars,
                   guiVars>>

\* Recorder.stop, lines 177-178: the flag is cleared and the duration is
\* computed; time.time() - None raises TypeError.
StopFlag ==
    /\ ui.pc = "idle"
    /\ recorder' = [recorder EXCEPT !.recording = FALSE]
    /\ ui' = IF recorder.start_time = None
             THEN UiState("idle", "stop", recorder, None, Some("TypeError"))
             ELSE UiState("stop_stream", "stop", recorder,
                          Some(clock - recorder.start_time[1]), None)
    /\ UNCHANGED <<portaudio, clock, fileVars, workerVars, cli>>
    /\ UNCHANGED <<envVars, priceVars, modelVars, ncalls, fr, histVars>>

\* A _callback of stream s is between its test and its append.
InCallback(s) ==
    portaudio.callback # None /\ portaudio.callback[1].stream = s

\* Recorder.stop, lines 179-183: the stream, if there is one, is stopped
\* once its callback is over, closed and forgotten; the duration is
\* returned.
StopStream ==
    /\ ui.pc = "stop_stream"
    /\ IF recorder.stream = None
       THEN UNCHANGED <<recorder, portaudio>>
       ELSE /\ ~InCallback(recorder.stream[1])
            /\ portaudio' = [portaudio EXCEPT
                               !.running = @ \ {recorder.stream[1]}]
            /\ recorder' = [recorder EXCEPT !.stream = None]
    /\ ui' = [ui EXCEPT !.pc = "idle"]
    /\ UNCHANGED <<clock, fileVars, workerVars, cli>>
    /\ UNCHANGED <<envVars, priceVars, modelVars, ncalls, fr, histVars>>

\* The numbers of the chunks of frames, in order: np.concatenate(frames).
RECURSIVE Concatenate(_)
Concatenate(frames) ==
    IF frames = << >> THEN << >>
    ELSE << Head(frames).id >> \o Concatenate(Tail(frames))

\* A temporary file: its path and the audio written to it.
TempFile(path, data) == [path |-> path, data |-> data]

\* Recorder.save_to_temp, lines 185-191: np.concatenate of no chunk raises
\* ValueError; mkstemp creates the file; ok: sf.write could write it.
save_to_temp ==
    /\ ui.pc = "idle"
    /\ npaths < MaxFiles
    /\ IF recorder.frames = << >>
       THEN /\ ui' = UiState("idle", "save_to_temp", recorder, None,
                             Some("ValueError"))
            /\ UNCHANGED fileVars
       ELSE \E ok \in BOOLEAN :
              LET path == npaths + 1
                  data == Concatenate(recorder.frames)
              IN  /\ npaths' = path
                  /\ tempfiles' = tempfiles \cup
                       {TempFile(path, IF ok THEN data ELSE << >>)}
                  /\ ui' = UiState("idle", "save_to_temp", recorder,
                                   IF ok THEN Some(path) ELSE None,
                                   IF ok THEN None ELSE Some("WriteError"))
    /\ UNCHANGED <<recorder, portaudio, clock, workerVars, cli>>
    /\ UNCHANGED <<envVars, priceVars, modelVars, ncalls, fr, histVars>>

\* A second passes on the clock time.time() reads.
ClockTick ==
    /\ clock < MaxClock
    /\ clock' = clock + 1
    /\ UNCHANGED <<recorder, portaudio, ui, fileVars, workerVars, cli>>
    /\ UNCHANGED <<envVars, priceVars, modelVars, ncalls, fr, histVars,
                   guiVars>>

\* ------------------------------------------------------------ TranscribeWorker
\* The temporary file of path p exists.
Exists(files, p) == \E t \in files : t.path = p

\* Remove that leaves the file in place.
RemoveNothing(files, p) == files

\* os.remove(p), under "if os.path.exists(p)".
Remove(files, p) == {t \in files : t.path # p}

\* The paths of the TranscribeWorker.run calls that ended.
EndedPaths == {ended[i].audio_path : i \in DOMAIN ended}

\* VTTApp.stop_recording, lines 464-474: the path save_to_temp returned is
\* given to a new TranscribeWorker, which is started.
WorkerStart(w) ==
    /\ ui.pc = "idle"
    /\ ui.op = "save_to_temp"
    /\ ui.result # None
    /\ audio_path[w] = None
    /\ fr[w].pc = "idle"
    /\ \A v \in Workers : audio_path[v] # ui.result
    /\ ui.result[1] \notin EndedPaths
    /\ audio_path' = [audio_path EXCEPT ![w] = ui.result]
    /\ UNCHANGED <<recVars, fileVars, ended, cli>>
    /\ UNCHANGED <<envVars, priceVars, modelVars, ncalls, fr, histVars>>

\* TranscribeWorker.run, lines 240-257, once transcribe_audio is over: the
\* finished or the error signal is emitted, and the finally clause removes
\* the audio file.
WorkerEnd(w) ==
    /\ audio_path[w] # None
    /\ fr[w].pc = "done"
    /\ ended' = Append(ended,
                       [worker |-> w, audio_path |-> audio_path[w][1],
                        signal |-> IF fr[w].returned THEN "finished"
                                   ELSE "error"])
    /\ tempfiles' = Remove(tempfiles, audio_path[w][1])
    /\ audio_path' = [audio_path EXCEPT ![w] = None]
    /\ fr' = [fr EXCEPT ![w] = IdleFrame]
    /\ pending' = Append(pending,
                         [signal |-> IF fr[w].returned THEN "finished"
                                     ELSE "error",
                          used_api |-> fr[w].used_api,
                          reason |-> fr[w].reason])
    /\ UNCHANGED <<app, settings, dialog, args>>
    /\ UNCHANGED <<recVars, npaths, cli>>
    /\ UNCHANGED <<envVars, priceVars, modelVars, ncalls, histVars>>

\* --------------------------------------------------------- check_api_available
\* The reasons check_api_available builds.
NoApiKeyMsg == << "No API key set" >>
PriceTooHighMsg(p) == << "API price too high ($", Fmt3(p), "/min)" >>

\* What a call of check_api_available gives: the pair it returns or the
\* exception it raises, and what it leaves behind: the in-memory price
\* mem, the price cache file, and whether it ran the LLM lookup.
CheckResult(available, reason, exc, mem, file) ==
    [available |-> available, reason |-> reason, exc |-> exc,
     mem |-> mem, file |-> file, lookup |-> FALSE]

\* check_api_available that keeps the price it read from the file in
\* _cached_api_price, as get_api_price does.
check_api_available_caching(key, net, mem, file) ==
    IF ~key THEN CheckResult(FALSE, Some(NoApiKeyMsg), None, mem, file)
    ELSE IF ~net THEN CheckResult(FALSE, Some(NoInternetMsg), None, mem, file)
    ELSE IF mem # None /\ mem[1] >= BLOCK_PRICE_PER_MINUTE
    THEN CheckResult(FALSE, Some(PriceTooHighMsg(mem[1])), None, mem, file)
    ELSE IF file.kind \in {"absent", "corrupt"}
    THEN CheckResult(TRUE, None, None, mem, file)
    ELSE IF file.kind \in {"falsy", "truthy"}
    THEN CheckResult(FALSE, None, Some("AttributeError"), mem, file)
    ELSE LET price == IF file.kind = "object" /\ file.has_price
                      THEN file.price ELSE DEFAULT_PRICE
         IN  IF price >= BLOCK_PRICE_PER_MINUTE
             THEN CheckResult(FALSE, Some(PriceTooHighMsg(price)), None,
                              Some(price), file)
             ELSE CheckResult(TRUE, None, None, Some(price), file)

\* check_api_available(), lines 53-71, for the API key, the network, the
\* in-memory price and the price cache file.  json.loads of a file that is
\* not JSON raises JSONDecodeError, which is caught; JSON that is no object
\* has no get: AttributeError, which is not.
check_api_available(key, net, mem, file) ==
    IF ~key THEN CheckResult(FALSE, Some(NoApiKeyMsg), None, mem, file)
    ELSE IF ~net THEN CheckResult(FALSE, Some(NoInternetMsg), None, mem, file)
    ELSE IF mem # None /\ mem[1] >= BLOCK_PRICE_PER_MINUTE
    THEN CheckResult(FALSE, Some(PriceTooHighMsg(mem[1])), None, mem, file)
    ELSE IF file.kind \in {"absent", "corrupt"}
    THEN CheckResult(TRUE, None, None, mem, file)
    ELSE IF file.kind \in {"falsy", "truthy"}
    THEN CheckResult(FALSE, None, Some("AttributeError"), mem, file)
    ELSE LET price == IF file.kind = "object" /\ file.has_price
                      THEN file.price ELSE DEFAULT_PRICE
         IN  IF price >= BLOCK_PRICE_PER_MINUTE
             THEN CheckResult(FALSE, Some(PriceTooHighMsg(price)), None,
                              mem, file)
             ELSE CheckResult(TRUE, None, None, mem, file)

\* ---------------------------------------------------------------------- VTTApp
\* VTTApp.__init__, lines 261-271, and init_ui: the window's fields and the
\* state of its widgets.  pc is the place the handler that runs has reached
\* ("idle": none runs), warning_label the text of the fallback_warning label
\* when it is shown, dialogs the number of "Using Local Mode" dialogs shown,
\* precheck the call of check_api_available the last stop_recording made
\* (what it was given and what it gave), and exc the exception that ended
\* the last handler.
NewApp ==
    [pc |-> "idle", is_recording |-> FALSE, use_local |-> FALSE,
     api_fallback_reason |-> None, fallback_warning_shown |-> FALSE,
     btn_text |-> "Record", btn_enabled |-> TRUE, mode_enabled |-> TRUE,
     warning_label |-> None, dialogs |-> 0, precheck |-> None, exc |-> None]

\* reset_button and update_styles, lines 512-518.
reset_button(a) ==
    [a EXCEPT !.btn_enabled = TRUE, !.mode_enabled = TRUE,
              !.btn_text = "Record"]

\* The UI thread is free to run a handler.
UiFree == app.pc = "idle" /\ dialog.pc = "closed"

\* VTTApp.start_recording, lines 414-427, reached from toggle_recording
\* while is_recording is false.  An exception of Recorder.start ends the
\* handler at line 416.
start_recording ==
    /\ UiFree
    /\ ~app.is_recording
    /\ start
    /\ app' = IF ui'.exc = None
              THEN [app EXCEPT !.is_recording = TRUE, !.btn_text = "Stop",
                               !.mode_enabled = FALSE, !.exc = None]
              ELSE [app EXCEPT !.is_recording = TRUE, !.exc = ui'.exc]
    /\ UNCHANGED <<settings, dialog, args, pending>>

\* VTTApp.stop_recording, lines 430-431, reached from toggle_recording
\* while is_recording is true: is_recording is cleared and Recorder.stop is
\* entered.
StopRecordingFlag ==
    /\ UiFree
    /\ app.is_recording
    /\ StopFlag
    /\ app' = [app EXCEPT !.is_recording = FALSE,
                          !.pc = IF ui'.exc = None THEN "stop_stream"
                                 ELSE "idle",
                          !.exc = ui'.exc]
    /\ UNCHANGED <<settings, dialog, args, pending>>

\* Line 431: Recorder.stop stops the stream and returns.
StopRecordingStream ==
    /\ app.pc = "stop_stream"
    /\ StopStream
    /\ app' = [app EXCEPT !.pc = "check"]
    /\ UNCHANGED <<settings, dialog, args, pending>>

\* DialogDue with the dialog shown at every refusal.
DialogDueAlways(shown) == TRUE

\* Line 450: the "Using Local Mode" dialog is shown when
\* fallback_warning_shown is still false.
DialogDue(shown) == ~shown

\* Lines 432-462: the button is disabled; in API mode check_api_available
\* is asked, and when it declines the warning label is shown and, the first
\* time, the "Using Local Mode" dialog.
StopRecordingCheck ==
    /\ app.pc = "check"
    /\ LET a == [app EXCEPT !.btn_text = "Record", !.btn_enabled = FALSE]
           r == check_api_available(OPENAI_API_KEY, has_internet,
                                    _cached_api_price, PRICE_CACHE_FILE)
           declined == ~r.available /\ r.reason # None
           pre == Some([key |-> OPENAI_API_KEY, net |-> has_internet,
                        mem |-> _cached_api_price,
                        file |-> PRICE_CACHE_FILE, result |-> r])
       IN  IF app.use_local
           THEN /\ app' = [a EXCEPT !.pc = "save", !.precheck = None]
                /\ UNCHANGED <<priceVars, lookups>>
           ELSE /\ _cached_api_price' = r.mem
                /\ PRICE_CACHE_FILE' = r.file
                /\ lookups' = IF r.lookup
                              THEN Append(lookups, [day |-> now, run |-> run])
                              ELSE lookups
                /\ app' =
                     IF r.exc # None
                     THEN [a EXCEPT !.pc = "idle", !.exc = r.exc,
                                    !.precheck = pre]
                     ELSE IF declined
                     THEN [a EXCEPT
                             !.pc = "save", !.precheck = pre,
                             !.api_fallback_reason = r.reason,
                             !.warning_label = r.reason,
                             !.fallback_warning_shown = TRUE,
                             !.dialogs =
                                IF DialogDue(app.fallback_warning_shown)
                                THEN @ + 1 ELSE @]
                     ELSE [a EXCEPT !.pc = "save", !.precheck = pre]
    /\ UNCHANGED <<envVars, modelVars, ncalls, fr, run, appVars>>
    /\ UNCHANGED <<settings, dialog, args, pending>>

\* Line 464: Recorder.save_to_temp, whose exception ends the handler.
StopRecordingSave ==
    /\ app.pc = "save"
    /\ save_to_temp
    /\ app' = [app EXCEPT !.pc = IF ui'.exc = None THEN "worker" ELSE "idle",
                          !.exc = ui'.exc]
    /\ UNCHANGED <<settings, dialog, args, pending>>

\* The five settings run passes to transcribe_audio, in the order it reads
\* them (lines 246-250).
SettingFields ==
    << "model_size", "device", "compute_type", "language",
       "filter_background_noise" >>

\* TranscribeWorker.__init__, lines 234-238: the worker keeps force_local
\* and a reference to the Settings object; nread counts the settings run
\* has read, cfg holds them, and precheck is what check_api_available gave
\* to the stop_recording that made the worker.
NewArgs(force_local, precheck) ==
    [force_local |-> force_local, precheck |-> precheck, nread |-> 0,
     cfg |-> DefaultConfig]

\* The order in which the names of Workers are given to the
\* TranscribeWorker objects.
Before(v, w) == v = "w1" /\ w = "w2"

\* Lines 465-474: the TranscribeWorker is created, connected and started;
\* it gets the first name of Workers that no running worker has.
StopRecordingWorker ==
    /\ app.pc = "worker"
    /\ \E w \in Workers :
         /\ \A v \in Workers : audio_path[v] = None => ~Before(v, w)
         /\ WorkerStart(w)
         /\ args' = [args EXCEPT ![w] =
                       Some(NewArgs(app.use_local, app.precheck))]
    /\ app' = [app EXCEPT !.pc = "idle", !.exc = None]
    /\ UNCHANGED <<settings, dialog, pending>>

\* TranscribeWorker.run, lines 246-250: one more of self.settings' values
\* is read, as the argument of the call being prepared.
WorkerRead(w) ==
    /\ audio_path[w] # None
    /\ args[w] # None
    /\ fr[w].pc = "idle"
    /\ args[w][1].nread < Len(SettingFields)
    /\ LET a == args[w][1]
           k == SettingFields[a.nread + 1]
       IN  args' = [args EXCEPT ![w] =
                      Some([a EXCEPT !.nread = @ + 1,
                                     !.cfg = [@ EXCEPT ![k] = settings[k]]])]
    /\ UNCHANGED <<app, settings, dialog, pending>>
    /\ UNCHANGED <<envVars, priceVars, modelVars, ncalls, fr, histVars,
                   appVars>>

\* TranscribeWorker.run, lines 242-251: transcribe_audio is called with the
\* values read.
WorkerCall(w) ==
    /\ audio_path[w] # None
    /\ args[w] # None
    /\ fr[w].pc = "idle"
    /\ args[w][1].nread = Len(SettingFields)
    /\ Call(w, args[w][1].force_local, args[w][1].cfg)

\* VTTApp.on_transcription, lines 480-505: the finished signal of a worker
\* is delivered to the UI thread.
on_transcription ==
    /\ UiFree
    /\ pending # << >>
    /\ Head(pending).signal = "finished"
    /\ LET sig == Head(pending)
           a == IF /\ ~app.use_local
                   /\ ~sig.used_api
                   /\ sig.reason # None
                   /\ sig.reason # Some(LocalModeMsg)
                THEN [app EXCEPT !.api_fallback_reason = sig.reason,
                                 !.warning_label = sig.reason]
                ELSE IF app.use_local \/ sig.used_api
                THEN [app EXCEPT !.api_fallback_reason = None,
                                 !.warning_label = None]
                ELSE app
       IN  app' = reset_button(a)
    /\ pending' = Tail(pending)
    /\ UNCHANGED <<settings, dialog, args>>
    /\ UNCHANGED <<envVars, priceVars, modelVars, ncalls, fr, histVars,
                   appVars>>

\* VTTApp.on_error, lines 507-510: the error signal of a worker is
\* delivered to the UI thread.
on_error ==
    /\ UiFree
    /\ pending # << >>
    /\ Head(pending).signal = "error"
    /\ app' = reset_button(app)
    /\ pending' = Tail(pending)
    /\ UNCHANGED <<settings, dialog, args>>
    /\ UNCHANGED <<envVars, priceVars, modelVars, ncalls, fr, histVars,
                   appVars>>

\* VTTApp.toggle_mode, lines 400-406, by a click on the enabled mode button.
toggle_mode ==
    /\ UiFree
    /\ app.mode_enabled
    /\ app' = IF app.use_local
              THEN [app EXCEPT !.use_local = FALSE, !.btn_text = "Record"]
              ELSE [app EXCEPT !.use_local = TRUE, !.btn_text = "Record",
                               !.warning_label = None,
                               !.api_fallback_reason = None]
    /\ UNCHANGED <<settings, dialog, args, pending>>
    /\ UNCHANGED <<envVars, priceVars, modelVars, ncalls, fr, histVars,
                   appVars>>

\* -------------------------------------------------------------- SettingsDialog
\* save_settings of the SettingsDialog: pc is "closed", "write" or "key";
\* new and new_key are what the dialog's widgets hold, written the number
\* of settings it has assigned, saves the number of save_settings that
\* changed the settings and are over, saved the states of the settings
\* that were saved, and last describes the last
\* save_settings: the settings it found, those it was to save, whether it
\* was abandoned at the download prompt and whether it called
\* clear_cached_model.
ClosedDialog ==
    [pc |-> "closed", new |-> DefaultConfig, new_key |-> FALSE,
     written |-> 0, saves |-> 0, saved |-> {DefaultConfig}, last |-> None]

\* TripleChanged with only the model size compared.
TripleChangedSizeOnly(old, new) == old.model_size # new.model_size

\* Lines 189-198: the triple to save differs from the one saved before.
TripleChanged(old, new) == Triple(old) # Triple(new)

\* save_settings, lines 168-199: the download prompt of a model that is not
\* on disk (reply: the answer is Yes), then clear_cached_model when the
\* triple changes.
SaveBegin(new, new_key, downloaded, reply) ==
    /\ UiFree
    /\ dialog.saves < MaxSaves
    /\ LET abandoned == /\ new.model_size # settings.model_size
                        /\ ~downloaded
                        /\ ~reply
           changed == TripleChanged(settings, new)
           last == [before |-> settings, new |-> new,
                    abandoned |-> abandoned,
                    cleared |-> ~abandoned /\ changed]
       IN  /\ dialog' = IF abandoned
                        THEN [dialog EXCEPT !.last = Some(last)]
                        ELSE [dialog EXCEPT !.pc = "write", !.new = new,
                                            !.new_key = new_key,
                                            !.written = 0,
                                            !.last = Some(last)]
           /\ IF ~abandoned /\ changed
              THEN clear_cached_model
              ELSE UNCHANGED <<envVars, priceVars, modelVars, ncalls, fr,
                               histVars, appVars>>
    /\ UNCHANGED <<app, settings, args, pending>>

\* Lines 202-207: the next of the five settings is assigned; after the
\* fifth the settings are saved to disk.
SaveWrite ==
    /\ dialog.pc = "write"
    /\ LET k == SettingFields[dialog.written + 1]
       IN  settings' = [settings EXCEPT ![k] = dialog.new[k]]
    /\ dialog' = IF dialog.written + 1 = Len(SettingFields)
                 THEN [dialog EXCEPT !.written = @ + 1, !.pc = "key",
                                     !.saved = @ \cup {dialog.new}]
                 ELSE [dialog EXCEPT !.written = @ + 1]
    /\ UNCHANGED <<app, args, pending>>
    /\ UNCHANGED <<envVars, priceVars, modelVars, ncalls, fr, histVars,
                   appVars>>

\* Lines 209-224: the API key of the dialog replaces that of os.environ,
\* and the dialog closes.
SaveKey ==
    /\ dialog.pc = "key"
    /\ OPENAI_API_KEY' = dialog.new_key
    /\ dialog' = [dialog EXCEPT !.pc = "closed", !.saves = @ + 1]
    /\ UNCHANGED <<app, settings, args, pending>>
    /\ UNCHANGED <<internet, now, priceVars, modelVars, ncalls, fr, histVars,
                   appVars>>

\* -------------------------------------------------------------------- vtt.main
\* The values transcribe_audio returns (lines 313-315) and the names line 69
\* of vtt.py unpacks them into.
RETURNED_VALUES == 6
UNPACKED_NAMES == 5

\* main() of vtt.py in its recording branch: the place it has reached, its
\* temporary file, the exception that is propagating and whether the
\* transcription was printed.
CliState(pc, temp_path, exc, printed) ==
    [pc |-> pc, temp_path |-> temp_path, exc |-> exc, printed |-> printed]
NoCli == CliState("none", None, None, FALSE)
CliMain == CliState("main", None, None, FALSE)

\* Lines 58-59: mkstemp creates the temporary file.
CliMkstemp ==
    /\ cli.pc = "main"
    /\ npaths' = npaths + 1
    /\ tempfiles' = tempfiles \cup {TempFile(npaths + 1, << >>)}
    /\ cli' = [cli EXCEPT !.pc = "record", !.temp_path = Some(npaths + 1)]
    /\ UNCHANGED <<recVars, workerVars>>
    /\ UNCHANGED <<envVars, priceVars, modelVars, ncalls, fr, histVars,
                   guiVars>>

\* Lines 62-67: record_audio and sf.write, either of which may raise.
CliRecord ==
    /\ cli.pc = "record"
    /\ \E outcome \in {"written", "RecordError", "WriteError"} :
         IF outcome = "written"
         THEN /\ tempfiles' = Remove(tempfiles, cli.temp_path[1])
                                \cup {TempFile(cli.temp_path[1], << 1 >>)}
              /\ cli' = [cli EXCEPT !.pc = "call"]
         ELSE /\ cli' = [cli EXCEPT !.pc = "finally", !.exc = Some(outcome)]
              /\ UNCHANGED tempfiles
    /\ UNCHANGED <<recVars, npaths, workerVars>>
    /\ UNCHANGED <<envVars, priceVars, modelVars, ncalls, fr, histVars,
                   guiVars>>

\* Lines 69-77, once transcribe_audio(temp_path) is over: its exception
\* propagates, or its values are unpacked (ValueError when their number is
\* not that of the names) and the transcription is printed.
CliUnpack ==
    /\ cli.pc = "call"
    /\ fr["w1"].pc = "done"
    /\ cli' = IF fr["w1"].exc # None
              THEN [cli EXCEPT !.pc = "finally", !.exc = fr["w1"].exc]
              ELSE IF RETURNED_VALUES # UNPACKED_NAMES
              THEN [cli EXCEPT !.pc = "finally", !.exc = Some("ValueError")]
              ELSE [cli EXCEPT !.pc = "finally", !.printed = TRUE]
    /\ UNCHANGED <<recVars, fileVars, workerVars>>
    /\ UNCHANGED <<envVars, priceVars, modelVars, ncalls, fr, histVars,
                   guiVars>>

\* Lines 79-82: the finally clause removes the temporary file, and main ends.
CliFinally ==
    /\ cli.pc = "finally"
    /\ tempfiles' = Remove(tempfiles, cli.temp_path[1])
    /\ cli' = [cli EXCEPT !.pc = "exit"]
    /\ UNCHANGED <<recVars, npaths, workerVars>>
    /\ UNCHANGED <<envVars, priceVars, modelVars, ncalls, fr, histVars,
                   guiVars>>

\* The process ends and the program is started again: the import of
\* transcriber.py sets the module globals anew, the price cache file stays.
Restart ==
    /\ run < MaxRuns
    /\ \A w \in Workers : fr[w].pc \in {"idle", "done"}
    /\ run' = run + 1
    /\ _cached_api_price' = None
    /\ _cached_local_model' = None
    /\ _cached_model_params' = None
    /\ constructed' = << >>
    /\ lastLocal' = None
    /\ fr' = [w \in Workers |-> IdleFrame]
    /\ recorder' = NewRecorder
    /\ portaudio' = NoAudio
    /\ ui' = IdleUi
    /\ audio_path' = [w \in Workers |-> None]
    /\ UiFree
    /\ app' = NewApp
    /\ dialog' = [ClosedDialog EXCEPT !.saves = dialog.saves,
                                      !.saved = {settings}]
    /\ args' = [w \in Workers |-> None]
    /\ pending' = << >>
    /\ UNCHANGED <<envVars, PRICE_CACHE_FILE, ncalls, lookups, settings>>
    /\ UNCHANGED <<clock, fileVars, ended, cli>>

\* ------------------------------------------------------------- specifications
\* The price cache files a process may find when it starts: none, garbage,
\* JSON of another shape, and objects with or without the two keys, checked
\* a week or more ago (day 0) or since (day 1).
FilePrices == {DEFAULT_PRICE, BLOCK_PRICE_PER_MINUTE + 200}
InitFiles ==
    {AbsentFile,
     File("corrupt", FALSE, 0, "missing", 0),
     File("empty", FALSE, 0, "missing", 0),
     File("falsy", FALSE, 0, "missing", 0),
     File("truthy", FALSE, 0, "missing", 0)}
    \cup {File("object", FALSE, 0, l, 0) : l \in {"missing", "bad"}}
    \cup {File("object", FALSE, 0, "ok", d) : d \in {0, 1}}
    \cup {File("object", TRUE, p, l, 0) :
            p \in FilePrices, l \in {"missing", "bad"}}
    \cup {File("object", TRUE, p, "ok", d) : p \in FilePrices, d \in {0, 1}}

\* The module globals as the import of transcriber.py leaves them.
InitProcess ==
    /\ _cached_api_price = None
    /\ _cached_local_model = None
    /\ _cached_model_params = None
    /\ constructed = << >>
    /\ lastLocal = None
    /\ ncalls = 0
    /\ fr = [w \in Workers |-> IdleFrame]
    /\ run = 1
    /\ lookups = << >>
    /\ recorder = NewRecorder
    /\ portaudio = NoAudio
    /\ clock = 0
    /\ ui = IdleUi
    /\ tempfiles = {}
    /\ npaths = 0
    /\ audio_path = [w \in Workers |-> None]
    /\ ended = << >>
    /\ app = NewApp
    /\ settings = DefaultConfig
    /\ dialog = ClosedDialog
    /\ args = [w \in Workers |-> None]
    /\ pending = << >>

Init ==
    /\ OPENAI_API_KEY \in BOOLEAN
    /\ internet \in BOOLEAN
    /\ now = PRICE_CHECK_INTERVAL_DAYS
    /\ PRICE_CACHE_FILE \in InitFiles
    /\ InitProcess
    /\ cli = NoCli

\* One transcribe_audio call at a time, as the command line and a GUI whose
\* recordings do not overlap make them, in an environment that changes.
Next ==
    \/ /\ ncalls < MaxCalls
       /\ \E force_local \in BOOLEAN, cfg \in FewConfigs :
            Call("w1", force_local, cfg)
    \/ Probe("w1")
    \/ GetPrice("w1")
    \/ Lookup("w1")
    \/ Remote("w1")
    \/ LocalCheck("w1")
    \/ LocalBuild("w1")
    \/ LocalSetParams("w1")
    \/ LocalRun("w1")
    \/ SetApiKey
    \/ NetworkChange
    \/ Tick

Spec == Init /\ [][Next]_vars

\* No call of a worker is in progress.
Quiet == \A w \in Workers : fr[w].pc \in {"idle", "done"}

InitLocal ==
    /\ OPENAI_API_KEY = FALSE
    /\ internet = TRUE
    /\ now = PRICE_CHECK_INTERVAL_DAYS
    /\ PRICE_CACHE_FILE = AbsentFile
    /\ InitProcess
    /\ cli = NoCli

\* Sequential local transcriptions with every configuration, and
\* clear_cached_model between them.
NextSeq ==
    \/ /\ ncalls < MaxSeqCalls
       /\ \E force_local \in BOOLEAN, cfg \in AllConfigs :
            Call("w1", force_local, cfg)
    \/ LocalCheck("w1")
    \/ LocalBuild("w1")
    \/ LocalSetParams("w1")
    \/ LocalRun("w1")
    \/ (Quiet /\ clear_cached_model /\ UNCHANGED guiVars)

SpecSeq == InitLocal /\ [][NextSeq]_vars

\* Two workers whose local transcriptions overlap, and the UI thread that
\* clears the cache at any moment.
NextConc ==
    \/ /\ ncalls < MaxConcCalls
       /\ \E w \in Workers, cfg \in RaceConfigs : Call(w, TRUE, cfg)
    \/ \E w \in Workers : LocalCheck(w)
    \/ \E w \in Workers : LocalBuild(w)
    \/ \E w \in Workers : LocalSetParams(w)
    \/ \E w \in Workers : LocalRun(w)
    \/ (clear_cached_model /\ UNCHANGED guiVars)

SpecConc == InitLocal /\ [][NextConc]_vars

\* No price cache file, one checked a week ago and one checked since.
InitPriceFiles ==
    {AbsentFile} \cup {WrittenFile(DEFAULT_PRICE, d) : d \in {0, 1}}

InitPrice ==
    /\ OPENAI_API_KEY = TRUE
    /\ internet = TRUE
    /\ now = PRICE_CHECK_INTERVAL_DAYS
    /\ PRICE_CACHE_FILE \in InitPriceFiles
    /\ InitProcess
    /\ cli = NoCli

\* Two workers whose calls may overlap and reach get_api_price together,
\* days that pass, and the program restarted between calls.
NextPrice ==
    \/ /\ ncalls < MaxPriceCalls
       /\ \E w \in Workers : Call(w, FALSE, DefaultConfig)
    \/ \E w \in Workers : Probe(w)
    \/ \E w \in Workers : GetPrice(w)
    \/ \E w \in Workers : Lookup(w)
    \/ \E w \in Workers : Remote(w)
    \/ \E w \in Workers : LocalCheck(w)
    \/ \E w \in Workers : LocalBuild(w)
    \/ \E w \in Workers : LocalSetParams(w)
    \/ \E w \in Workers : LocalRun(w)
    \/ Restart
    \/ Tick

SpecPrice == InitPrice /\ [][NextPrice]_vars

\* The Recorder alone: a thread that calls its methods in any order, and
\* the audio thread that runs _callback.
NextRec ==
    \/ (start /\ UNCHANGED guiVars)
    \/ CallbackTest
    \/ CallbackAppend
    \/ (StopFlag /\ UNCHANGED guiVars)
    \/ (StopStream /\ UNCHANGED guiVars)
    \/ (save_to_temp /\ UNCHANGED guiVars)
    \/ ClockTick

SpecRec == InitLocal /\ [][NextRec]_vars

\* The program is app.py (no main of vtt.py) or vtt.py; the price cache
\* file was written the day before.
InitApp ==
    /\ OPENAI_API_KEY \in BOOLEAN
    /\ internet = TRUE
    /\ now = PRICE_CHECK_INTERVAL_DAYS
    /\ PRICE_CACHE_FILE = WrittenFile(DEFAULT_PRICE, PRICE_CHECK_INTERVAL_DAYS - 1)
    /\ InitProcess
    /\ cli \in {NoCli, CliMain}

\* app.py: recordings started and stopped in turn (toggle_recording), each
\* saved to a temporary file after its stop (stop_recording) and
\* transcribed by a TranscribeWorker thread; vtt.py: main in its recording
\* branch.
NextApp ==
    \/ /\ cli.pc = "none"
       /\ ~recorder.recording
       /\ start
       /\ UNCHANGED guiVars
    \/ CallbackTest
    \/ CallbackAppend
    \/ /\ cli.pc = "none"
       /\ recorder.recording
       /\ StopFlag
       /\ UNCHANGED guiVars
    \/ (StopStream /\ UNCHANGED guiVars)
    \/ /\ cli.pc = "none"
       /\ ui.op = "stop"
       /\ save_to_temp
       /\ UNCHANGED guiVars
    \/ \E w \in Workers : WorkerStart(w) /\ UNCHANGED guiVars
    \/ /\ ncalls < MaxAppCalls
       /\ \E w \in Workers, force_local \in BOOLEAN :
            /\ audio_path[w] # None
            /\ fr[w].pc = "idle"
            /\ Call(w, force_local, DefaultConfig)
    \/ \E w \in Workers : WorkerEnd(w)
    \/ CliMkstemp
    \/ CliRecord
    \/ /\ cli.pc = "call"
       /\ fr["w1"].pc = "idle"
       /\ Call("w1", FALSE, DefaultConfig)
    \/ CliUnpack
    \/ CliFinally
    \/ \E w \in Workers : Probe(w)
    \/ \E w \in Workers : GetPrice(w)
    \/ \E w \in Workers : Remote(w)
    \/ \E w \in Workers : LocalCheck(w)
    \/ \E w \in Workers : LocalBuild(w)
    \/ \E w \in Workers : LocalSetParams(w)
    \/ \E w \in Workers : LocalRun(w)

SpecApp == InitApp /\ [][NextApp]_vars

\* The steps of worker w's transcribe_audio call.
Pipeline(w) ==
    \/ Probe(w)
    \/ GetPrice(w)
    \/ Lookup(w)
    \/ Remote(w)
    \/ LocalCheck(w)
    \/ LocalBuild(w)
    \/ LocalSetParams(w)
    \/ LocalRun(w)

InitFair ==
    /\ OPENAI_API_KEY \in BOOLEAN
    /\ internet \in BOOLEAN
    /\ now = PRICE_CHECK_INTERVAL_DAYS
    /\ PRICE_CACHE_FILE \in
         InitPriceFiles \cup {WrittenFile(BLOCK_PRICE_PER_MINUTE, 1)}
    /\ InitProcess
    /\ cli = NoCli

\* Calls that follow one another while the key and the network change; the
\* thread of a call is scheduled until the call is over, and every step of
\* a call (a connection attempt, an HTTP request, the transcription of a
\* file) comes to its end.
NextFair ==
    \/ /\ ncalls < MaxCalls
       /\ \E force_local \in BOOLEAN, cfg \in FewConfigs :
            Call("w1", force_local, cfg)
    \/ Pipeline("w1")
    \/ SetApiKey
    \/ NetworkChange

SpecFair == InitFair /\ [][NextFair]_vars /\ WF_vars(Pipeline("w1"))

\* app.py with a price checked the day before.
InitGui ==
    /\ OPENAI_API_KEY \in BOOLEAN
    /\ internet = TRUE
    /\ now = PRICE_CHECK_INTERVAL_DAYS
    /\ PRICE_CACHE_FILE =
         WrittenFile(DEFAULT_PRICE, PRICE_CHECK_INTERVAL_DAYS - 1)
    /\ InitProcess
    /\ cli = NoCli

\* app.py: the UI thread runs the handlers of the window one at a time
\* (Enter toggles the recording whatever the state of the button, a click
\* toggles the mode), the audio thread runs _callback, each
\* TranscribeWorker thread runs its transcribe_audio call, and the signals
\* of the workers are delivered to the UI thread in the order of their
\* emission.
NextGui ==
    \/ start_recording
    \/ CallbackTest
    \/ CallbackAppend
    \/ StopRecordingFlag
    \/ StopRecordingStream
    \/ StopRecordingCheck
    \/ StopRecordingSave
    \/ StopRecordingWorker
    \/ \E w \in Workers : WorkerRead(w)
    \/ \E w \in Workers : (ncalls < MaxGuiCalls /\ WorkerCall(w))
    \/ \E w \in Workers : Probe(w)
    \/ \E w \in Workers : GetPrice(w)
    \/ \E w \in Workers : Remote(w)
    \/ \E w \in Workers : LocalCheck(w)
    \/ \E w \in Workers : LocalBuild(w)
    \/ \E w \in Workers : LocalSetParams(w)
    \/ \E w \in Workers : LocalRun(w)
    \/ \E w \in Workers : WorkerEnd(w)
    \/ on_transcription
    \/ on_error
    \/ toggle_mode

SpecGui == InitGui /\ [][NextGui]_vars

\* The price cache files app.py may find: none, garbage, JSON that is no
\* object, an object without a price, a price checked the day before, and
\* prices at and above the block threshold checked a week ago.
ClickFiles ==
    {AbsentFile,
     File("corrupt", FALSE, 0, "missing", 0),
     File("truthy", FALSE, 0, "missing", 0),
     File("object", FALSE, 0, "ok", 1),
     WrittenFile(DEFAULT_PRICE, PRICE_CHECK_INTERVAL_DAYS - 1),
     WrittenFile(BLOCK_PRICE_PER_MINUTE, 0),
     WrittenFile(BLOCK_PRICE_PER_MINUTE + 200, 0)}

InitClick ==
    /\ OPENAI_API_KEY \in BOOLEAN
    /\ internet \in BOOLEAN
    /\ now = PRICE_CHECK_INTERVAL_DAYS
    /\ PRICE_CACHE_FILE \in ClickFiles
    /\ InitProcess
    /\ cli = NoCli

\* app.py used with the mouse: the record button toggles the recording
\* while it is enabled, so that a recording starts only when no
\* transcription is under way.
NextClick ==
    \/ (app.btn_enabled /\ start_recording)
    \/ CallbackTest
    \/ CallbackAppend
    \/ (app.btn_enabled /\ StopRecordingFlag)
    \/ StopRecordingStream
    \/ StopRecordingCheck
    \/ StopRecordingSave
    \/ StopRecordingWorker
    \/ \E w \in Workers : WorkerRead(w)
    \/ \E w \in Workers : (ncalls < MaxGuiCalls /\ WorkerCall(w))
    \/ \E w \in Workers : Pipeline(w)
    \/ \E w \in Workers : WorkerEnd(w)
    \/ on_transcription
    \/ on_error
    \/ toggle_mode

SpecClick == InitClick /\ [][NextClick]_vars

\* What the user may leave in the dialog's widgets: the saved settings, a
\* model of another size, another compute type, and another language with
\* the noise filter off.
SaveConfigs ==
    {DefaultConfig,
     Config("tiny", "cpu", "int8", "en", TRUE),
     Config("small", "cpu", "float32", "en", TRUE),
     Config("small", "cpu", "int8", "auto", FALSE)}

\* app.py without an API key and without a network, so that every
\* transcription is local.
InitSettings ==
    /\ OPENAI_API_KEY = FALSE
    /\ internet = FALSE
    /\ now = PRICE_CHECK_INTERVAL_DAYS
    /\ PRICE_CACHE_FILE =
         WrittenFile(DEFAULT_PRICE, PRICE_CHECK_INTERVAL_DAYS - 1)
    /\ InitProcess
    /\ cli = NoCli

\* app.py used with the mouse, and the settings dialog opened and saved at
\* any moment the UI thread is free, also while a TranscribeWorker runs.
NextSettings ==
    \/ (app.btn_enabled /\ start_recording)
    \/ CallbackTest
    \/ CallbackAppend
    \/ (app.btn_enabled /\ StopRecordingFlag)
    \/ StopRecordingStream
    \/ StopRecordingCheck
    \/ StopRecordingSave
    \/ StopRecordingWorker
    \/ \E w \in Workers : WorkerRead(w)
    \/ \E w \in Workers : (ncalls < MaxGuiCalls /\ WorkerCall(w))
    \/ \E w \in Workers : Probe(w)
    \/ \E w \in Workers : LocalCheck(w)
    \/ \E w \in Workers : LocalBuild(w)
    \/ \E w \in Workers : LocalSetParams(w)
    \/ \E w \in Workers : LocalRun(w)
    \/ \E w \in Workers : WorkerEnd(w)
    \/ on_transcription
    \/ on_error
    \/ \E new \in SaveConfigs, new_key, downloaded, reply \in BOOLEAN :
         SaveBegin(new, new_key, downloaded, reply)
    \/ SaveWrite
    \/ SaveKey

SpecSettings == InitSettings /\ [][NextSettings]_vars

\* app.py with a price checked the day before.
InitDialog ==
    /\ OPENAI_API_KEY \in BOOLEAN
    /\ internet \in BOOLEAN
    /\ now = PRICE_CHECK_INTERVAL_DAYS
    /\ PRICE_CACHE_FILE =
         WrittenFile(DEFAULT_PRICE, PRICE_CHECK_INTERVAL_DAYS - 1)
    /\ InitProcess
    /\ cli = NoCli

\* app.py used with the mouse while the API key is set or removed and the
\* network comes and goes, and the program ended and started again.
NextDialog ==
    \/ (app.btn_enabled /\ start_recording)
    \/ CallbackTest
    \/ CallbackAppend
    \/ (app.btn_enabled /\ StopRecordingFlag)
    \/ StopRecordingStream
    \/ StopRecordingCheck
    \/ StopRecordingSave
    \/ StopRecordingWorker
    \/ \E w \in Workers : WorkerRead(w)
    \/ \E w \in Workers : (ncalls < MaxGuiCalls /\ WorkerCall(w))
    \/ \E w \in Workers : Probe(w)
    \/ \E w \in Workers : GetPrice(w)
    \/ \E w \in Workers : Remote(w)
    \/ \E w \in Workers : LocalCheck(w)
    \/ \E w \in Workers : LocalBuild(w)
    \/ \E w \in Workers : LocalSetParams(w)
    \/ \E w \in Workers : LocalRun(w)
    \/ \E w \in Workers : WorkerEnd(w)
    \/ on_transcription
    \/ on_error
    \/ toggle_mode
    \/ (UiFree /\ SetApiKey)
    \/ NetworkChange
    \/ Restart

SpecDialog == InitDialog /\ [][NextDialog]_vars

\* ------------------------------------------------------------------- claims
\* Event e is among the events ev of a call.
Has(ev, e) == \E i \in DOMAIN ev : ev[i] = e

\* Piece s is one of the pieces of message msg.
Contains(msg, s) == \E i \in DOMAIN msg : msg[i] = s

\* The exceptions transcribe_locally raises.
LocalErrors == {"LoadError", "DecodeError", "AttributeError"}

\* The call's local transcription got the call's own five settings.
LocalGotConfig(f) ==
    /\ f.text # None
    /\ f.text[1].backend = "local"
    /\ f.text[1].model.params = Triple(f)
    /\ f.text[1].language = Lang(f.language)
    /\ f.text[1].vad_filter = f.filter_background_noise

\* C1: once transcribe_with_api has raised in a call, the call goes on to
\* transcribe_locally, only a failure of the local backend keeps it from
\* returning, and what it returns is the local backend's text with
\* used_api false and the text of the remote exception as the reason.
C1_RemoteFailureFallsBack ==
    \A w \in Workers :
        LET f == fr[w]
        IN  f.remote_error # None =>
              /\ Has(f.events, "remote")
              /\ f.pc \in {"local", "build", "params", "run", "done"}
              /\ f.pc = "done" => Has(f.events, "local")
              /\ f.exc # None => f.exc[1] \in LocalErrors
              /\ f.returned =>
                   /\ f.text[1].backend = "local"
                   /\ ~f.used_api
                   /\ f.reason = Some(<< f.remote_error[1] >>)

\* A call whose remote attempt raised "Connection error." has returned the
\* local text.
C1_Witness ==
    \E w \in Workers :
        /\ fr[w].remote_error = Some("Connection error.")
        /\ fr[w].returned
        /\ fr[w].text[1].backend = "local"

\* C2 as stated: a call raises only an exception of the local backend,
\* after it entered transcribe_locally.
C2_OnlyLocalFailurePropagates ==
    \A w \in Workers :
        fr[w].exc # None =>
            /\ Has(fr[w].events, "local")
            /\ fr[w].exc[1] \in LocalErrors

\* C3: in every returned result the reason is None exactly when used_api is
\* true, and used_api is true exactly when the text is the remote backend's.
C3_ReasonNoneIffUsedApi ==
    \A w \in Workers :
        fr[w].returned =>
            /\ (fr[w].reason = None) <=> fr[w].used_api
            /\ fr[w].used_api <=> (fr[w].text[1].backend = "remote")

\* A call declined by the connectivity probe has returned the local text
\* with a reason.
C3_Witness ==
    \E w \in Workers :
        /\ fr[w].returned
        /\ Has(fr[w].events, "probe_failed")
        /\ fr[w].text[1].backend = "local"
        /\ fr[w].reason # None

\* C4: a call with force_local set has the reason "Local mode selected",
\* never attempts the remote backend, and returns the local text with
\* used_api false, whatever the API key, the network and the price cache.
C4_ForceLocal ==
    \A w \in Workers :
        LET f == fr[w]
        IN  (f.pc # "idle" /\ f.force_local) =>
              /\ f.reason = Some(LocalModeMsg)
              /\ ~f.use_api
              /\ ~f.used_api
              /\ ~Has(f.events, "remote")
              /\ f.returned => f.text[1].backend = "local"

\* A forced-local call has returned while the API key is set, the network
\* is up and the cached price is below the block threshold.
C4_Witness ==
    \E w \in Workers :
        /\ fr[w].force_local
        /\ fr[w].returned
        /\ OPENAI_API_KEY
        /\ internet
        /\ _cached_api_price = Some(DEFAULT_PRICE)

\* The checks of the decision: the API key, the connectivity probe, and
\* get_api_price with its own probe, lookup and file write.
DecisionEvents ==
    {"key_set", "key_missing", "probe_ok", "probe_failed", "get_api_price",
     "price_probe", "lookup", "write"}
IsDecisionEvent(e) == e \in DecisionEvents
Decisions(f) == SelectSeq(f.events, IsDecisionEvent)

\* C5: the decision checks force_local, the API key, connectivity and the
\* price in this order and stops at the first that disqualifies the remote
\* backend: no key check after force_local, no probe after a missing key,
\* no price lookup after a failed probe, and the reason is that of the
\* check that stopped it.
C5_StrictOrder ==
    \A w \in Workers :
        LET f == fr[w]
            d == Decisions(f)
        IN  f.pc # "idle" =>
              /\ f.force_local <=> d = << >>
              /\ f.force_local => f.reason = Some(LocalModeMsg)
              /\ Has(d, "key_missing") =>
                   d = << "key_missing" >> /\ f.reason = Some(NoKeyMsg)
              /\ Has(d, "probe_failed") =>
                   /\ d = << "key_set", "probe_failed" >>
                   /\ f.reason = Some(NoInternetMsg)
              /\ Len(d) >= 1 => d[1] \in {"key_set", "key_missing"}
              /\ Len(d) >= 2 => d[2] \in {"probe_ok", "probe_failed"}
              /\ Len(d) >= 3 => d[3] = "get_api_price"
              /\ \A i \in DOMAIN d :
                   d[i] \in {"price_probe", "lookup", "write"} => i > 3

\* A call stopped by the failed probe has returned although a lookup was
\* due: the API key is set and the price cache file is absent.
C5_Witness ==
    \E w \in Workers :
        /\ fr[w].returned
        /\ Decisions(fr[w]) = << "key_set", "probe_failed" >>
        /\ OPENAI_API_KEY
        /\ PRICE_CACHE_FILE = AbsentFile
        /\ _cached_api_price = None

\* C6: for the price p get_api_price returned to the decision: at or above
\* the block threshold the remote backend is not attempted and the reason
\* contains p formatted to three decimals; from the warn threshold up to
\* the block threshold it is attempted with a warning; below the warn
\* threshold it is attempted without a warning.
C6_PriceThresholds ==
    \A w \in Workers :
        LET f == fr[w]
            p == f.api_price[1]
            attempted == f.pc = "remote" \/ Has(f.events, "remote")
        IN  f.api_price # None =>
              /\ p >= BLOCK_PRICE_PER_MINUTE =>
                   /\ ~attempted
                   /\ ~f.use_api
                   /\ f.reason # None
                   /\ Contains(f.reason[1], Fmt3(p))
              /\ (WARN_PRICE_PER_MINUTE <= p /\ p < BLOCK_PRICE_PER_MINUTE) =>
                   attempted /\ f.warning # None
              /\ p < WARN_PRICE_PER_MINUTE =>
                   attempted /\ f.warning = None

\* A call has returned with the price 0.12: its reason contains "0.120".
C6_Witness ==
    \E w \in Workers :
        /\ fr[w].returned
        /\ fr[w].api_price = Some(BLOCK_PRICE_PER_MINUTE + 200)
        /\ Contains(fr[w].reason[1], "0.120")

\* C7 as stated: a call without force_local that found no API key returns
\* the reason "No API key set" and the local text made with its own five
\* settings.
C7_NoKeyReason ==
    \A w \in Workers :
        LET f == fr[w]
        IN  (f.returned /\ ~f.force_local /\ Has(f.events, "key_missing")) =>
              /\ f.reason = Some(<< "No API key set" >>)
              /\ LocalGotConfig(f)

\* C8 as stated: the model that made a call's local text was constructed
\* with that call's (model_size, device, compute_type).
C8_ModelMatchesCall ==
    \A w \in Workers :
        (fr[w].returned /\ fr[w].text[1].backend = "local") =>
            fr[w].text[1].model.params = Triple(fr[w])

\* The local transcription before the call's own ran with the same triple,
\* and clear_cached_model was not called since.
SameAsPrev(f) ==
    /\ f.prev # None
    /\ ~f.prev[1].cleared
    /\ f.prev[1].params = Triple(f)

\* C9, for calls that follow one another: a call with the triple of the
\* local transcription before it, and no clear_cached_model between them,
\* constructs nothing and uses the same model instance, whatever the
\* language and the noise filter of the two; any other call constructs a
\* new model with its own triple and uses it; and the call leaves its model
\* and its triple in the cache.
C9_SequentialCache ==
    \A w \in Workers :
        LET f == fr[w]
        IN  (f.returned /\ f.text[1].backend = "local") =>
              /\ SameAsPrev(f) =>
                   /\ f.built = None
                   /\ ~Has(f.events, "build")
                   /\ f.text[1].model = f.prev[1].model
              /\ ~SameAsPrev(f) =>
                   /\ f.built # None
                   /\ f.built[1].params = Triple(f)
                   /\ f.text[1].model = f.built[1]
                   /\ f.prev # None => f.built[1].id # f.prev[1].model.id
              /\ ~lastLocal[1].cleared =>
                   /\ _cached_model_params = Some(Triple(f))
                   /\ _cached_local_model = Some(f.text[1].model)

\* A call has returned that reused the model of the call before it, which
\* had another language and another noise filter setting.
C9_Witness ==
    \E w \in Workers :
        /\ fr[w].returned
        /\ SameAsPrev(fr[w])
        /\ fr[w].built = None
        /\ fr[w].prev[1].language # Lang(fr[w].language)
        /\ fr[w].prev[1].vad_filter # fr[w].filter_background_noise

\* The call found the cache empty when it entered transcribe_locally.
SawEmpty(f) == f.seen # None /\ f.seen[1].model = None

\* C10 as stated: of two calls with the same triple that found the same
\* empty cache (no model was constructed between their reads of it), only
\* one constructs a model.
C10_OneRebuild ==
    \A w1, w2 \in Workers :
        (/\ w1 # w2
         /\ SawEmpty(fr[w1])
         /\ SawEmpty(fr[w2])
         /\ fr[w1].seen[1].nbuilt = fr[w2].seen[1].nbuilt
         /\ Triple(fr[w1]) = Triple(fr[w2]))
            => ~(fr[w1].built # None /\ fr[w2].built # None)

\* The price cache entry file, read on day day, was checked less than
\* PRICE_CHECK_INTERVAL_DAYS before and holds a price.
FreshEntry(file, day) ==
    /\ file.kind = "object"
    /\ file.has_price
    /\ file.last = "ok"
    /\ day - file.day < PRICE_CHECK_INTERVAL_DAYS

\* C11 as stated: a get_api_price that finds a persisted entry checked less
\* than 7 days ago returns the persisted price, without a lookup and without
\* writing the file; and any two lookups, of one process or of two, are at
\* least the refresh interval apart.
C11_OneLookupPerInterval ==
    /\ \A w \in Workers :
          LET f == fr[w]
          IN  (f.cache_read # None /\ FreshEntry(f.cache_read[1], f.price_day))
                => /\ f.price_path = "fresh"
                   /\ f.api_price = Some(f.cache_read[1].price)
                   /\ ~Has(f.events, "lookup")
                   /\ ~Has(f.events, "write")
    /\ \A i, j \in DOMAIN lookups :
          i < j => lookups[j].day - lookups[i].day >= PRICE_CHECK_INTERVAL_DAYS

\* C12 as stated: a process makes at most one lookup, also when calls race
\* on the unset in-memory price, and the in-memory price stays the one every
\* call of the process got.
C12_SingleFlight ==
    /\ \A i, j \in DOMAIN lookups :
          i # j => lookups[i].run # lookups[j].run
    /\ \A w \in Workers :
          fr[w].api_price # None => _cached_api_price = fr[w].api_price
    /\ \A w \in Workers :
          fr[w].price_path = "memory" => ~Has(fr[w].events, "lookup")

\* The ways get_api_price ends a refresh without a new price.
FailedRefresh ==
    {"no_key", "no_internet", "rejected", "unparseable", "error"}

\* C13 as stated: after a get_api_price that failed to refresh a stale or
\* absent cache, the cache file holds last_checked = the day of the call and
\* the price the call retained.
C13_FailureStampsCache ==
    \A w \in Workers :
        LET f == fr[w]
        IN  f.price_path \in FailedRefresh =>
              /\ f.api_price # None
              /\ PRICE_CACHE_FILE = WrittenFile(f.api_price[1], f.price_day)

\* The price get_api_price retains when it read file: the file's, or the
\* default when there is no cache.
PreviousPrice(file) ==
    IF file.kind = "object" /\ file.has_price THEN file.price
    ELSE DEFAULT_PRICE

C15_PriceNeverRaises ==
    \A w \in Workers :
        LET f == fr[w]
        IN  (Has(f.events, "get_api_price") /\ f.pc # "lookup") =>
              /\ f.price_path # "raise"
              /\ f.api_price # None

\* C16: the temporary audio file of every TranscribeWorker.run that ended,
\* with the finished or with the error signal, no longer exists, and once
\* the recording branch of vtt.main has ended, normally or by an exception,
\* its temporary file no longer exists.
C16_TempFileRemoved ==
    /\ \A i \in DOMAIN ended : ~Exists(tempfiles, ended[i].audio_path)
    /\ cli.pc = "exit" => ~Exists(tempfiles, cli.temp_path[1])

\* Two runs have ended, one with the finished and one with the error
\* signal, and neither of the two files that were created is left.
C16_Witness ==
    /\ \E i \in DOMAIN ended : ended[i].signal = "finished"
    /\ \E i \in DOMAIN ended : ended[i].signal = "error"
    /\ npaths = 2
    /\ tempfiles = {}

\* Sequence s is the beginning of sequence t.
IsPrefix(s, t) == Len(s) <= Len(t) /\ SubSeq(t, 1, Len(s)) = s

\* C17 as stated: a start() that found the Recorder recording has failed and
\* left the session as it was: the chunks captured, the start time and the
\* open stream are those of before, and no second stream runs.
C17_StartNotReentrant ==
    (ui.op = "start" /\ ui.before.recording) =>
        /\ ui.exc # None
        /\ recorder.start_time = ui.before.start_time
        /\ recorder.stream = ui.before.stream
        /\ IsPrefix(ui.before.frames, recorder.frames)
        /\ Cardinality(portaudio.running) <= 1

\* C18 as stated: a stop() that found the Recorder not recording (before any
\* start, or after a stop) has raised an error and returned no duration.
C18_StopWhenIdleFails ==
    (ui.pc = "idle" /\ ui.op = "stop" /\ ~ui.before.recording) =>
        /\ ui.exc # None
        /\ ui.result = None

\* C19 as stated: every chunk in self.frames was appended while
\* self.recording was true.
C19_AppendOnlyWhileRecording ==
    \A i \in DOMAIN recorder.frames : recorder.frames[i].flag

\* The numbers of seq increase.
Increasing(seq) == \A i, j \in DOMAIN seq : i < j => seq[i] < seq[j]

\* C20 as stated: save_to_temp writes the chunks captured, all of them and
\* in the order of capture, and takes them out of the Recorder: no chunk is
\* in two temporary files.
C20_DrainClears ==
    /\ \A t \in tempfiles : Increasing(t.data)
    /\ (ui.op = "save_to_temp" /\ ui.result # None) =>
          \E t \in tempfiles :
              /\ t.path = ui.result[1]
              /\ t.data = Concatenate(ui.before.frames)
    /\ \A t, u \in tempfiles :
          t.path # u.path =>
              \A i \in DOMAIN t.data, j \in DOMAIN u.data : t.data[i] # u.data[j]

\* C23: a call whose resolved price is at or above the block threshold
\* returns, as its fallback reason, the message check_api_available gives
\* for that price: "API price too high ($<price>/min)".
C23_BlockReasonMatchesCheck ==
    \A w \in Workers :
        LET f == fr[w]
        IN  /\ f.returned
            /\ f.api_price # None
            /\ f.api_price[1] >= BLOCK_PRICE_PER_MINUTE
            => f.reason = Some(PriceTooHighMsg(f.api_price[1]))

\* The number of events e among the events ev of a call.
Count(ev, e) == Cardinality({i \in DOMAIN ev : ev[i] = e})

\* A call made at most one remote and at most one local attempt; once the
\* remote backend was declined or failed and the call is over, the local
\* backend was entered exactly once; a remote attempt that succeeded is
\* followed by no local attempt; and the text returned is the text of the
\* backend used_api names.
AttemptsOnce(f) ==
    /\ Count(f.events, "remote") <= 1
    /\ Count(f.events, "local") <= 1
    /\ (f.pc = "done" /\ (~f.use_api \/ f.remote_error # None))
         => Count(f.events, "local") = 1
    /\ (Has(f.events, "remote") /\ f.remote_error = None)
         => ~Has(f.events, "local")
    /\ f.returned =>
         /\ f.text # None
         /\ f.used_api <=> f.text[1].backend = "remote"
         /\ f.used_api <=> ~Has(f.events, "local")
         /\ f.used_api => f.remote_error = None

\* C27: every transcribe_audio call comes to its end, after at most one
\* remote attempt and at most one local attempt: the local backend runs
\* exactly once when the remote backend was declined or failed and never
\* when it succeeded, and the text returned comes from the backend that
\* used_api reports.
C27_TerminatesWithoutRetry ==
    /\ [](\A w \in Workers : AttemptsOnce(fr[w]))
    /\ \A w \in Workers : (fr[w].pc # "idle") ~> (fr[w].pc = "done")

\* A call whose remote attempt failed has returned the local text, and an
\* earlier call is over.
C27_Witness ==
    /\ ncalls = MaxCalls
    /\ fr["w1"].returned
    /\ fr["w1"].remote_error # None
    /\ Count(fr["w1"].events, "remote") = 1
    /\ Count(fr["w1"].events, "local") = 1
    /\ fr["w1"].text[1].backend = "local"

\* C30: once transcribe_audio has returned to main of vtt.py, main prints
\* the transcription and the timing: no exception comes between the return
\* and the printing.
C30_MainPrintsResult ==
    (cli.pc \in {"finally", "exit"} /\ fr["w1"].returned)
        => (cli.printed /\ cli.exc = None)

\* C24: a recording that was started while an earlier TranscribeWorker was
\* running keeps its state when that transcription completes: as long as
\* is_recording is true after a start that succeeded, the record button
\* reads "Stop" and the mode toggle is disabled.
C24_CompletionKeepsRecordingState ==
    (app.is_recording /\ app.exc = None)
        => (app.btn_text = "Stop" /\ ~app.mode_enabled)

\* C25: check_api_available only reads: it starts no price lookup and
\* leaves _cached_api_price and the price cache file as it found them,
\* whatever the API key, the network and the cache are.
C25_CheckIsReadOnly ==
    app.precheck # None =>
        LET c == app.precheck[1]
        IN  /\ ~c.result.lookup
            /\ c.result.mem = c.mem
            /\ c.result.file = c.file

\* stop_recording has asked check_api_available with the key set, the
\* network up, no price in memory and a price cache file checked a week
\* ago (get_api_price would look the price up), and got the price of the
\* file as the reason of its refusal.
C25_Witness ==
    /\ app.precheck # None
    /\ app.precheck[1].key
    /\ app.precheck[1].net
    /\ app.precheck[1].mem = None
    /\ app.precheck[1].file.kind = "object"
    /\ app.precheck[1].file.day = 0
    /\ ~app.precheck[1].result.available
    /\ app.pc = "save"

\* C26: with the key, the network and the price cache file touched by
\* nobody else in between, the transcribe_audio call a worker makes with
\* force_local false agrees with the check_api_available call that
\* preceded it: after (False, reason) it does not attempt the remote
\* backend, after (True, None) it does (calls that get_api_price ends with
\* an exception left aside).
C26_CheckPredictsCall ==
    \A w \in Workers :
        (args[w] # None /\ args[w][1].precheck # None
           /\ args[w][1].precheck[1].result.exc = None
           /\ audio_path[w] # None /\ fr[w].exc = None)
        => LET r == args[w][1].precheck[1].result
               f == fr[w]
           IN  /\ ~r.available => ~Has(f.events, "remote")
               /\ (r.available /\ f.pc = "done") => Has(f.events, "remote")

\* C28: a start whose input stream could not be opened leaves
\* recorder.recording and VTTApp.is_recording false, so that the next
\* toggle starts a recording.
C28_FailedStartLeavesIdle ==
    (ui.pc = "idle" /\ ui.op = "start" /\ ui.exc # None)
        => (~recorder.recording /\ ~app.is_recording)

\* C29: every stop_recording is followed by one on_transcription or
\* on_error that enables the record button again; stated for the states
\* it rules out: when no handler is running and the record button is
\* disabled, a TranscribeWorker is running or a signal of one waits for
\* delivery.
C29_ButtonComesBack ==
    (app.pc = "idle" /\ ~app.btn_enabled)
        => \/ \E w \in Workers : audio_path[w] # None
           \/ pending # << >>

\* The five settings a call was given.
ConfigOf(f) ==
    Config(f.model_size, f.device, f.compute_type, f.language,
           f.filter_background_noise)

\* The states of the settings that were saved, and the one that
\* save_settings is writing.
SavedStates ==
    dialog.saved \cup (IF dialog.pc = "write" THEN {dialog.new} ELSE {})

\* C21: the five settings run passes to transcribe_audio are those of one
\* saved state of the settings (the one before or the one after a save),
\* also when save_settings runs while the worker starts or runs.
C21_WorkerSeesOneSavedState ==
    \A w \in Workers :
        (audio_path[w] # None /\ fr[w].pc # "idle")
            => ConfigOf(fr[w]) \in SavedStates

\* The cache globals after a save_settings that found the settings before
\* and was to save new: cleared when the triple changes.
CacheAfterSave(before, new, model, params) ==
    IF Triple(before) # Triple(new) THEN << None, None >>
    ELSE << model, params >>

\* C22: save_settings clears the local model cache exactly when the triple
\* (model size, device, compute type) it saves differs from the one saved
\* before, so that the next local transcription builds a model; a save
\* that changes only the language, the noise filter or the API key leaves
\* the cached model in place, and a save abandoned at the download prompt
\* changes neither the settings nor the cache; a save that is carried out
\* leaves the settings of the dialog.
C22_SaveInvalidatesCache ==
    [][/\ (dialog.pc = "closed"
             /\ (dialog'.pc = "write" \/ dialog'.last # dialog.last))
          => LET l == dialog'.last[1]
             IN  /\ l.before = settings
                 /\ l.abandoned =>
                      /\ dialog'.pc = "closed"
                      /\ UNCHANGED <<settings, modelVars, OPENAI_API_KEY>>
                 /\ ~l.abandoned =>
                      /\ dialog'.pc = "write"
                      /\ << _cached_local_model', _cached_model_params' >> =
                           CacheAfterSave(l.before, l.new,
                                          _cached_local_model,
                                          _cached_model_params)
                      /\ NeedsReload(_cached_local_model',
                                     _cached_model_params', Triple(l.new))
                           \/ Triple(l.before) = Triple(l.new)
       /\ (dialog.pc = "key" /\ dialog'.pc = "closed")
          => /\ settings' = dialog.last[1].new
             /\ UNCHANGED modelVars
      ]_vars

\* A save that changed only the compute type is writing the settings: it
\* has cleared the cache, which held the model of a transcription.
C22_Witness ==
    /\ dialog.pc = "write"
    /\ dialog.last # None
    /\ dialog.last[1].before.model_size = dialog.last[1].new.model_size
    /\ dialog.last[1].before.compute_type # dialog.last[1].new.compute_type
    /\ lastLocal # None
    /\ lastLocal[1].cleared
    /\ _cached_local_model = None

\* C31: the "Using Local Mode" dialog is shown at most once in a process,
\* over any recordings, mode toggles and changes of the API key and the
\* network: fallback_warning_shown goes from false to true at most once
\* and not back, and the dialog is shown on that transition only.
C31_DialogShownOnce ==
    /\ [](/\ app.dialogs <= 1
          /\ app.fallback_warning_shown <=> app.dialogs = 1)
    /\ [][run' = run =>
            /\ app.fallback_warning_shown => app'.fallback_warning_shown
            /\ app'.dialogs # app.dialogs <=>
                 (~app.fallback_warning_shown /\ app'.fallback_warning_shown)
            /\ app'.dialogs # app.dialogs =>
                 (app.pc = "check" /\ app'.dialogs = app.dialogs + 1)
         ]_vars

\* The check_api_available of a second stop_recording has refused the API
\* for another reason than that of the first, whose worker was started,
\* and one dialog was shown.
C31_Witness ==
    /\ app.pc = "save"
    /\ app.precheck # None
    /\ ~app.precheck[1].result.available
    /\ args["w1"] # None
    /\ args["w1"][1].precheck # None
    /\ ~args["w1"][1].precheck[1].result.available
    /\ args["w1"][1].precheck[1].result.reason
         # app.precheck[1].result.reason
    /\ app.fallback_warning_shown
    /\ app.dialogs = 1
====
